---------------------------- MODULE Spec2Model ----------------------------
(***************************************************************************)
(* Moderation-risk estimation of grok-generator: the similarity matcher,   *)
(* the risky-term extractor, the suggestion generator, the historical      *)
(* risk scorer (src/lib/promptAnalysis.ts), the classifier adapter         *)
(* (src/lib/grokTextModeration.ts) and the moderation history store        *)
(* (src/lib/moderationTracking.ts).                                        *)
(*                                                                         *)
(* Prompts are sequences of one-character strings.  JavaScript numbers are *)
(* exact rationals [n |-> numerator, d |-> denominator] in lowest terms    *)
(* with d > 0: the scores are ratios of small integers and products with   *)
(* decimal constants, and rounding is not modelled.                        *)
(***************************************************************************)
EXTENDS Integers, Sequences, FiniteSets, TLC

VARIABLES
    storage,         \* localStorage["grok_moderation_history"]: the events, newest first
    userApiKey,      \* grokTextModeration.ts module variable userApiKey
    pc,              \* position of the one assessment call the model follows
    call,            \* its function and arguments [fn, prompt, type, cost]
    response,        \* what generateText came back with
    baseAssessment,  \* assessModerationRiskWithGrok's local baseAssessment
    grokAnalysis,    \* what checkTextModeration resolved with
    result,          \* the RiskAssessment handed to the caller
    str1,            \* calculateSimilarity's first argument  (SimSpec)
    str2,            \* calculateSimilarity's second argument (SimSpec)
    simResult,       \* calculateSimilarity's return value    (SimSpec)
    invocations,     \* the pending assessModerationRiskWithGrok calls (ConcSpec)
    tracked,         \* the events tracked since the last clear (StoreSpec)
    cookie,          \* the value of the grok-api-key cookie  (LoginSpec)
    grokApiKey,      \* grokApi.ts's userApiKey               (LoginSpec)
    route,           \* "login" or "app": the page shown      (LoginSpec)
    page,            \* "image" or "video": the page in use   (PageSpec)
    runs,            \* the calls of generateImages / generateVideo (PageSpec)
    resolver,        \* window.__moderationWarningResolve: the call whose
                     \* promise it resolves, 0 when deleted   (PageSpec)
    loading,         \* the page's loading flag               (PageSpec)
    warningAssessment, \* the call whose warning is shown, 0 for null (PageSpec)
    preflights,      \* preflight checks in flight            (PageSpec)
    genHistory,      \* the stored generation history         (GenHistorySpec)
    nextId,          \* ids handed out by crypto.randomUUID   (GenHistorySpec)
    now              \* Date.now()                            (GenHistorySpec)

vars == <<storage, userApiKey, pc, call, response, baseAssessment, grokAnalysis,
          result, str1, str2, simResult, invocations, tracked,
          cookie, grokApiKey, route,
          page, runs, resolver, loading, warningAssessment, preflights,
          genHistory, nextId, now>>

None == "none"

-----------------------------------------------------------------------------
(* JavaScript numbers, as exact rationals *)

Abs(x) == IF x < 0 THEN -x ELSE x

RECURSIVE GCD(_, _)
GCD(a, b) == IF b = 0 THEN a ELSE GCD(b, a % b)

\* the number n/d (d # 0), in lowest terms
Q(n, d) ==
    LET g == GCD(Abs(n), Abs(d))
        s == IF d < 0 THEN -1 ELSE 1
    IN  [n |-> (s * n) \div g, d |-> (s * d) \div g]

QInt(k)    == Q(k, 1)
QAdd(x, y) == Q(x.n * y.d + y.n * x.d, x.d * y.d)
QMul(x, y) == Q(x.n * y.n, x.d * y.d)
QDiv(x, y) == Q(x.n * y.d, x.d * y.n)
QLe(x, y)  == x.n * y.d <= y.n * x.d
QLt(x, y)  == x.n * y.d < y.n * x.d
QMin(x, y) == IF QLt(y, x) THEN y ELSE x      \* Math.min
QMax(x, y) == IF QLt(x, y) THEN y ELSE x      \* Math.max

Zero == QInt(0)
One  == QInt(1)

\* no number yet
NoNumber == [n |-> 0, d |-> 0]

-----------------------------------------------------------------------------
(* Strings *)

UpperCase == <<"A", "B", "C", "D", "G", "O", "T">>
LowerCase == <<"a", "b", "c", "d", "g", "o", "t">>

IsWhitespace(c) == c \in {" ", "\t", "\n"}

toLowerChar(c) ==
    IF \E i \in DOMAIN UpperCase : UpperCase[i] = c
    THEN LowerCase[CHOOSE i \in DOMAIN UpperCase : UpperCase[i] = c]
    ELSE c

\* String.prototype.toLowerCase
toLowerCase(s) == [i \in DOMAIN s |-> toLowerChar(s[i])]

\* s.split(/\s+/): the pieces between maximal runs of whitespace; a string
\* that starts or ends with whitespace yields an empty first or last piece.
RECURSIVE SplitFrom(_, _, _, _)
SplitFrom(s, i, cur, out) ==
    IF i > Len(s) THEN Append(out, cur)
    ELSE IF IsWhitespace(s[i])
         THEN IF i > 1 /\ IsWhitespace(s[i - 1])
              THEN SplitFrom(s, i + 1, cur, out)
              ELSE SplitFrom(s, i + 1, <<>>, Append(out, cur))
         ELSE SplitFrom(s, i + 1, Append(cur, s[i]), out)

split(s) == SplitFrom(s, 1, <<>>, <<>>)

Range(f) == {f[i] : i \in DOMAIN f}

\* str.toLowerCase().split(/\s+/).filter(w => w.length > 2)
LongWord(w) == Len(w) > 2
tokenize(s) == SelectSeq(split(toLowerCase(s)), LongWord)

-----------------------------------------------------------------------------
(* Similarity matcher *)

\* mutants of calculateSimilarity
calculateSimilarity_noLower(a, b) ==
    LET words1 == SelectSeq(split(a), LongWord)
        words2 == SelectSeq(split(b), LongWord)
        set1 == Range(words1)
        set2 == Range(words2)
    IN  IF Len(words1) = 0 \/ Len(words2) = 0 THEN Zero
        ELSE Q(Cardinality({w \in set1 : w \in set2}), Cardinality(set1 \cup set2))

calculateSimilarity_overFirst(a, b) ==
    LET words1 == tokenize(a)
        words2 == tokenize(b)
        set1 == Range(words1)
        set2 == Range(words2)
    IN  IF Len(words1) = 0 \/ Len(words2) = 0 THEN Zero
        ELSE Q(Cardinality({w \in set1 : w \in set2}), Cardinality(set1))

calculateSimilarity_listUnion(a, b) ==
    LET words1 == tokenize(a)
        words2 == tokenize(b)
        set1 == Range(words1)
        set2 == Range(words2)
    IN  IF Len(words1) = 0 \/ Len(words2) = 0 THEN Zero
        ELSE Q(Cardinality({w \in set1 : w \in set2}), Len(words1) + Len(words2))

calculateSimilarity(a, b) ==
    LET words1 == tokenize(a)
        words2 == tokenize(b)
        set1 == Range(words1)
        set2 == Range(words2)
        overlap == Cardinality({w \in set1 : w \in set2})
        union == Cardinality(set1 \cup set2)
    IN  IF Len(words1) = 0 \/ Len(words2) = 0 THEN Zero
        ELSE Q(overlap, union)

-----------------------------------------------------------------------------
(* Moderation history store and pricing *)

MAX_EVENTS == 2              \* moderationTracking.ts keeps 500; scaled down

ModerationFee == Q(5, 100)   \* PRICING.moderationFee

getCost(type, model) ==
    IF type = "image"
    THEN IF model = "grok-imagine-image-pro" THEN Q(7, 100) ELSE Q(22, 1000)
    ELSE QAdd(Q(2, 1000), QMul(Q(5, 100), QInt(3)))

\* mutant: a moderated event is charged the fee alone
getModeratedCost_feeOnly(type, model) == Q(5, 100)

getModeratedCost(type, model) == QAdd(getCost(type, model), Q(5, 100))

\* localStorage.getItem(STORAGE_KEY) parsed; no item gives [], and the empty
\* sequence stands for both
getModerationHistory(st) == st

\* the ModerationEvent that trackModerationEvent builds; id, timestamp,
\* inputImageHash, errorMessage and metadata are read by no operation here
NewEvent(type, prompt, moderated, model) ==
    [type |-> type, prompt |-> prompt, moderated |-> moderated,
     cost |-> IF moderated THEN getModeratedCost(type, model) ELSE getCost(type, model),
     model |-> model]

Take(s, k) == SubSeq(s, 1, IF Len(s) < k THEN Len(s) ELSE k)   \* s.slice(0, k)

-----------------------------------------------------------------------------
(* Array.prototype.sort with a descending numeric key: stable *)

\* pairs are <<key, item>>
RECURSIVE InsertDesc(_, _)
InsertDesc(sorted, x) ==
    IF sorted = <<>> THEN <<x>>
    ELSE IF QLt(Head(sorted)[1], x[1])
         THEN <<x>> \o sorted
         ELSE <<Head(sorted)>> \o InsertDesc(Tail(sorted), x)

RECURSIVE SortPairs(_)
SortPairs(s) ==
    IF s = <<>> THEN <<>>
    ELSE InsertDesc(SortPairs(SubSeq(s, 1, Len(s) - 1)), s[Len(s)])

\* mutant: the similar prompts left in the store's order
sortBySimilarity_unsorted(similar) == similar

\* similar.sort((a, b) => b.similarity - a.similarity)
sortBySimilarity(similar) ==
    LET sorted == SortPairs([i \in DOMAIN similar |-> <<similar[i].similarity, similar[i]>>])
    IN  [i \in DOMAIN sorted |-> sorted[i][2]]

\* mutant: the risky words left in the prompt's order
sortByRisk_unsorted(riskyWords) == riskyWords

\* riskyWords.sort((a, b) => b.risk - a.risk)
sortByRisk(riskyWords) ==
    LET sorted == SortPairs([i \in DOMAIN riskyWords |-> <<riskyWords[i].risk, riskyWords[i]>>])
    IN  [i \in DOMAIN sorted |-> sorted[i][2]]

\* Array.from(new Set(s)): first occurrences, in order
RECURSIVE Dedup(_)
Dedup(s) ==
    IF s = <<>> THEN <<>>
    ELSE LET init == Dedup(SubSeq(s, 1, Len(s) - 1))
             x == s[Len(s)]
         IN  IF x \in Range(init) THEN init ELSE Append(init, x)

RECURSIVE SumQ(_)
SumQ(s) == IF s = <<>> THEN Zero ELSE QAdd(SumQ(SubSeq(s, 1, Len(s) - 1)), s[Len(s)])

\* similar.reduce((sum, s) => sum + s.similarity, 0)
sumSimilarity(similar) == SumQ([i \in DOMAIN similar |-> similar[i].similarity])

-----------------------------------------------------------------------------
(* findSimilarPrompts *)

MinSimilarity == Q(2, 10)

\* mutant: the events of every kind are scored
findSimilarPrompts_anyType(history, prompt, type) ==
    LET scored == [i \in DOMAIN history |->
                      [event |-> history[i],
                       similarity |-> calculateSimilarity(prompt, history[i].prompt)]]
        similar == SelectSeq(scored, LAMBDA sp : QLe(MinSimilarity, sp.similarity))
        sorted == sortBySimilarity(similar)
    IN  [moderated  |-> Take(SelectSeq(sorted, LAMBDA sp : sp.event.moderated), 5),
         successful |-> Take(SelectSeq(sorted, LAMBDA sp : ~sp.event.moderated), 5)]

findSimilarPrompts(history, prompt, type) ==
    LET typeHistory == SelectSeq(history, LAMBDA e : e.type = type)
        scored == [i \in DOMAIN typeHistory |->
                      [event |-> typeHistory[i],
                       similarity |-> calculateSimilarity(prompt, typeHistory[i].prompt)]]
        similar == SelectSeq(scored, LAMBDA sp : QLe(MinSimilarity, sp.similarity))
        sorted == sortBySimilarity(similar)
    IN  [moderated  |-> Take(SelectSeq(sorted, LAMBDA sp : sp.event.moderated), 5),
         successful |-> Take(SelectSeq(sorted, LAMBDA sp : ~sp.event.moderated), 5)]

-----------------------------------------------------------------------------
(* findRiskyWords *)

\* occurrences of word in the sequence words
RECURSIVE Occurrences(_, _)
Occurrences(words, word) ==
    IF words = <<>> THEN 0
    ELSE (IF Head(words) = word THEN 1 ELSE 0) + Occurrences(Tail(words), word)

\* the Map built over the prompts of events: map.get(word) || 0
RECURSIVE WordCount(_, _)
WordCount(events, word) ==
    IF events = <<>> THEN 0
    ELSE Occurrences(tokenize(Head(events).prompt), word) + WordCount(Tail(events), word)

\* mutant: a single occurrence is evidence enough
IsRisky_noEvidence(moderatedCount, successfulCount) ==
    /\ moderatedCount > successfulCount
    /\ QLt(Q(6, 10), Q(moderatedCount, moderatedCount + successfulCount))

IsRisky(moderatedCount, successfulCount) ==
    /\ moderatedCount + successfulCount >= 2
    /\ moderatedCount > successfulCount
    /\ QLt(Q(6, 10), Q(moderatedCount, moderatedCount + successfulCount))

findRiskyWords(history, prompt, type) ==
    LET typeHistory == SelectSeq(history, LAMBDA e : e.type = type)
        moderatedPrompts == SelectSeq(typeHistory, LAMBDA e : e.moderated)
        successfulPrompts == SelectSeq(typeHistory, LAMBDA e : ~e.moderated)
        promptWords == tokenize(prompt)
        kept == SelectSeq(promptWords, LAMBDA w :
                    IsRisky(WordCount(moderatedPrompts, w), WordCount(successfulPrompts, w)))
        riskyWords == [i \in DOMAIN kept |->
                    [word |-> kept[i],
                     risk |-> Q(WordCount(moderatedPrompts, kept[i]),
                                WordCount(moderatedPrompts, kept[i])
                                    + WordCount(successfulPrompts, kept[i]))]]
        top == Take(sortByRisk(riskyWords), 5)
    IN  IF Len(moderatedPrompts) = 0 THEN <<>>
        ELSE [i \in DOMAIN top |-> top[i].word]

-----------------------------------------------------------------------------
(* generateSuggestions.  A JavaScript string is a sequence of pieces whose *)
(* concatenation is the string.                                            *)

\* words.join(', ')
RECURSIVE Join(_)
Join(words) ==
    IF words = <<>> THEN <<>>
    ELSE IF Len(words) = 1 THEN words[1]
    ELSE words[1] \o <<",", " ">> \o Join(Tail(words))

\* mutant: the two generic suggestions come first
generateSuggestions_genericFirst(riskyWords, similarSuccessful) ==
    Take(  << <<"Use more generic, descriptive terms">>,
              <<"Avoid specific descriptions of people or sensitive topics">> >>
        \o (IF Len(riskyWords) > 0
            THEN << <<"Consider removing or replacing: ">> \o Join(riskyWords) >>
            ELSE <<>>)
        \o (IF Len(similarSuccessful) > 0
            THEN << <<"Try phrasing similar to: \"">> \o similarSuccessful[1].event.prompt
                    \o <<"\"">> >>
            ELSE <<>>),
        4)

generateSuggestions(riskyWords, similarSuccessful) ==
    Take(  (IF Len(riskyWords) > 0
            THEN << <<"Consider removing or replacing: ">> \o Join(riskyWords) >>
            ELSE <<>>)
        \o (IF Len(similarSuccessful) > 0
            THEN << <<"Try phrasing similar to: \"">> \o similarSuccessful[1].event.prompt
                    \o <<"\"">> >>
            ELSE <<>>)
        \o << <<"Use more generic, descriptive terms">>,
              <<"Avoid specific descriptions of people or sensitive topics">> >>,
        4)

-----------------------------------------------------------------------------
(* assessModerationRisk *)

\* mutant: the share of the moderated among the similar prompts, by count
similarityScore_byCount(moderated, successful) ==
    LET totalSimilar == Len(moderated) + Len(successful)
        moderatedWeight == sumSimilarity(moderated)
        successfulWeight == sumSimilarity(successful)
        totalWeight == QAdd(moderatedWeight, successfulWeight)
    IN  IF totalSimilar > 0 /\ QLt(Zero, totalWeight)
        THEN [riskScore |-> Q(Len(moderated), totalSimilar),
              confidence |-> QMin(Q(totalSimilar, 10), One)]
        ELSE [riskScore |-> Zero, confidence |-> Zero]

\* mutant: full confidence at 5 similar prompts
similarityScore_maxAtFive(moderated, successful) ==
    LET totalSimilar == Len(moderated) + Len(successful)
        moderatedWeight == sumSimilarity(moderated)
        successfulWeight == sumSimilarity(successful)
        totalWeight == QAdd(moderatedWeight, successfulWeight)
    IN  IF totalSimilar > 0 /\ QLt(Zero, totalWeight)
        THEN [riskScore |-> QDiv(moderatedWeight, totalWeight),
              confidence |-> QMin(Q(totalSimilar, 5), One)]
        ELSE [riskScore |-> Zero, confidence |-> Zero]

\* the score from the similar prompts, before the risky-word boost
similarityScore(moderated, successful) ==
    LET totalSimilar == Len(moderated) + Len(successful)
        moderatedWeight == sumSimilarity(moderated)
        successfulWeight == sumSimilarity(successful)
        totalWeight == QAdd(moderatedWeight, successfulWeight)
    IN  IF totalSimilar > 0 /\ QLt(Zero, totalWeight)
        THEN [riskScore |-> QDiv(moderatedWeight, totalWeight),
              confidence |-> QMin(Q(totalSimilar, 10), One)]
        ELSE [riskScore |-> Zero, confidence |-> Zero]

\* mutant: the confidence floor applied whether or not risky words were found
riskyWordBoost_always(score, riskyWords) ==
    [riskScore |-> QMin(QAdd(score.riskScore,
                             QMul(QInt(Len(riskyWords)), Q(1, 10))), One),
     confidence |-> QMax(score.confidence, Q(5, 10))]

\* the boost when risky words were found
riskyWordBoost(score, riskyWords) ==
    IF Len(riskyWords) > 0
    THEN [riskScore |-> QMin(QAdd(score.riskScore,
                                  QMul(QInt(Len(riskyWords)), Q(1, 10))), One),
          confidence |-> QMax(score.confidence, Q(5, 10))]
    ELSE score

\* mutant: the moderation fee left out
historicalWaste_noFee(riskScore, cost) == QMul(riskScore, cost)

historicalWaste(riskScore, cost) == QMul(riskScore, QAdd(cost, ModerationFee))

assessModerationRisk(history, prompt, type, cost) ==
    LET sim == findSimilarPrompts(history, prompt, type)
        riskyWords == findRiskyWords(history, prompt, type)
        score == riskyWordBoost(similarityScore(sim.moderated, sim.successful), riskyWords)
    IN  [riskScore |-> score.riskScore,
         confidence |-> score.confidence,
         similarModerated |-> sim.moderated,
         similarSuccessful |-> sim.successful,
         riskyWords |-> riskyWords,
         suggestions |-> generateSuggestions(riskyWords, sim.successful),
         estimatedWaste |-> historicalWaste(score.riskScore, cost)]

-----------------------------------------------------------------------------
(* checkTextModeration (grokTextModeration.ts) *)

\* A null key is the empty sequence: setGrokTextModerationApiKey never keeps
\* an empty string, and getApiKey rejects both alike.
Null == <<>>

RECURSIVE trimStart(_)
trimStart(s) == IF s # <<>> /\ IsWhitespace(Head(s)) THEN trimStart(Tail(s)) ELSE s

RECURSIVE trimEnd(_)
trimEnd(s) ==
    IF s # <<>> /\ IsWhitespace(s[Len(s)]) THEN trimEnd(SubSeq(s, 1, Len(s) - 1)) ELSE s

trim(s) == trimEnd(trimStart(s))

\* userApiKey = key?.trim() || null
setGrokTextModerationApiKey(key) == IF key = Null THEN Null ELSE trim(key)

\* values inside the parsed JSON
JStr(s) == [t |-> "string", s |-> s]
JNum(s) == [t |-> "number", s |-> s]

\* what generateText comes back with.  kind: "none" (no request was made),
\* "reject" (the request failed), "notjson" (JSON.parse throws), "null"
\* (the text is the JSON null) or "object"; object: the parsed object, by the
\* typeof of its safe and confidence and Array.isArray of its lists.
JsonObject(safeType, safe, confType, conf, issuesIsArray, issues, suggIsArray, sugg) ==
    [safeType |-> safeType, safe |-> safe,
     confidenceType |-> confType, confidence |-> conf,
     issuesIsArray |-> issuesIsArray, issues |-> issues,
     suggestionsIsArray |-> suggIsArray, suggestions |-> sugg,
     reasoning |-> <<"brief explanation">>]

EmptyObject == JsonObject("boolean", TRUE, "number", Zero, TRUE, <<>>, TRUE, <<>>)

Response(kind, object) == [kind |-> kind, object |-> object]

NoResponse == Response("none", EmptyObject)

\* the catch block: the fallback verdict, the error's message in reasoning
Fallback(message) ==
    [safe |-> TRUE, confidence |-> Zero, issues |-> <<>>, suggestions |-> <<>>,
     reasoning |-> <<"Error analyzing prompt: ", message>>]

Resolved(value) == [status |-> "resolved", value |-> value]
Rejected(message) == [status |-> "rejected", value |-> Fallback(message)]

ValidFormat(o) ==
    /\ o.safeType = "boolean"
    /\ o.confidenceType = "number"
    /\ o.issuesIsArray
    /\ o.suggestionsIsArray

\* mutant: the format check leaves out the two lists
checkTextModeration_noListCheck(key, resp) ==
    IF key = Null THEN Resolved(Fallback("Grok API key is not set. Please log in."))
    ELSE IF resp.kind = "reject" THEN Resolved(Fallback("network error"))
    ELSE IF resp.kind = "notjson" THEN Resolved(Fallback("Unexpected token"))
    ELSE IF resp.kind = "null" THEN Resolved(Fallback("Cannot read properties of null"))
    ELSE IF ~(resp.object.safeType = "boolean" /\ resp.object.confidenceType = "number")
         THEN Resolved(Fallback("Invalid response format from Grok"))
    ELSE Resolved([safe |-> resp.object.safe, confidence |-> resp.object.confidence,
                   issues |-> resp.object.issues, suggestions |-> resp.object.suggestions,
                   reasoning |-> resp.object.reasoning])

\* the settled promise of checkTextModeration(prompt), called with userApiKey = key
\* when generateText comes back with resp
checkTextModeration(key, resp) ==
    IF key = Null THEN Resolved(Fallback("Grok API key is not set. Please log in."))
    ELSE IF resp.kind = "reject" THEN Resolved(Fallback("network error"))
    ELSE IF resp.kind = "notjson" THEN Resolved(Fallback("Unexpected token"))
    ELSE IF resp.kind = "null" THEN Resolved(Fallback("Cannot read properties of null"))
    ELSE IF ~ValidFormat(resp.object)
         THEN Resolved(Fallback("Invalid response format from Grok"))
    ELSE Resolved([safe |-> resp.object.safe, confidence |-> resp.object.confidence,
                   issues |-> resp.object.issues, suggestions |-> resp.object.suggestions,
                   reasoning |-> resp.object.reasoning])

-----------------------------------------------------------------------------
(* assessModerationRiskWithGrok, from the resolution of checkTextModeration *)

\* mutant: an unsafe verdict halves the historical score as a safe one does
combineScores_unsafeHalves(base, grok) ==
    IF QLt(Zero, grok.confidence)
    THEN IF ~grok.safe
         THEN [riskScore |-> QMul(base.riskScore, Q(5, 10)),
               confidence |-> QMax(grok.confidence, base.confidence)]
         ELSE [riskScore |-> QMul(base.riskScore, Q(5, 10)),
               confidence |-> QMax(QMul(grok.confidence, Q(8, 10)), base.confidence)]
    ELSE [riskScore |-> base.riskScore, confidence |-> base.confidence]

\* mutant: the two weights exchanged
combineScores_swapped(base, grok) ==
    IF QLt(Zero, grok.confidence)
    THEN IF ~grok.safe
         THEN [riskScore |-> QAdd(QMul(grok.confidence, Q(3, 10)),
                                  QMul(base.riskScore, Q(7, 10))),
               confidence |-> QMax(grok.confidence, base.confidence)]
         ELSE [riskScore |-> QMul(base.riskScore, Q(5, 10)),
               confidence |-> QMax(QMul(grok.confidence, Q(8, 10)), base.confidence)]
    ELSE [riskScore |-> base.riskScore, confidence |-> base.confidence]

combineScores(base, grok) ==
    IF QLt(Zero, grok.confidence)
    THEN IF ~grok.safe
         THEN [riskScore |-> QAdd(QMul(grok.confidence, Q(7, 10)),
                                  QMul(base.riskScore, Q(3, 10))),
               confidence |-> QMax(grok.confidence, base.confidence)]
         ELSE [riskScore |-> QMul(base.riskScore, Q(5, 10)),
               confidence |-> QMax(QMul(grok.confidence, Q(8, 10)), base.confidence)]
    ELSE [riskScore |-> base.riskScore, confidence |-> base.confidence]

\* issue.toLowerCase() throws a TypeError on a value that is no string
LowerCaseThrows(issues) == \E i \in DOMAIN issues : issues[i].t # "string"

\* mutant: the waste keeps the moderation fee
blend_withFee(base, grok, cost) ==
    LET combined == combineScores(base, grok)
    IN  [riskScore |-> combined.riskScore,
         confidence |-> combined.confidence,
         similarModerated |-> base.similarModerated,
         similarSuccessful |-> base.similarSuccessful,
         riskyWords |-> Dedup(base.riskyWords
                              \o [i \in DOMAIN grok.issues |-> toLowerCase(grok.issues[i].s)]),
         suggestions |-> Take(base.suggestions \o grok.suggestions, 5),
         estimatedWaste |-> QMul(combined.riskScore, QAdd(cost, ModerationFee)),
         grokAnalysis |-> grok]

\* mutant: the classifier's lists come first
blend_grokFirst(base, grok, cost) ==
    LET combined == combineScores(base, grok)
    IN  [riskScore |-> combined.riskScore,
         confidence |-> combined.confidence,
         similarModerated |-> base.similarModerated,
         similarSuccessful |-> base.similarSuccessful,
         riskyWords |-> Dedup([i \in DOMAIN grok.issues |-> toLowerCase(grok.issues[i].s)]
                              \o base.riskyWords),
         suggestions |-> Take(grok.suggestions \o base.suggestions, 5),
         estimatedWaste |-> QMul(combined.riskScore, cost),
         grokAnalysis |-> grok]

blend(base, grok, cost) ==
    LET combined == combineScores(base, grok)
    IN  [riskScore |-> combined.riskScore,
         confidence |-> combined.confidence,
         similarModerated |-> base.similarModerated,
         similarSuccessful |-> base.similarSuccessful,
         riskyWords |-> Dedup(base.riskyWords
                              \o [i \in DOMAIN grok.issues |-> toLowerCase(grok.issues[i].s)]),
         suggestions |-> Take(base.suggestions \o grok.suggestions, 5),
         estimatedWaste |-> QMul(combined.riskScore, cost),
         grokAnalysis |-> grok]

\* mutant: no catch around the processing of the verdict
assessModerationRiskWithGrok_noCatch(base, settled, cost) ==
    IF settled.status = "rejected" THEN [rejected |-> TRUE]
    ELSE IF LowerCaseThrows(settled.value.issues) THEN [rejected |-> TRUE]
    ELSE blend(base, settled.value, cost)

\* settled: the settled promise of checkTextModeration
assessModerationRiskWithGrok(base, settled, cost) ==
    IF settled.status = "rejected" THEN base
    ELSE IF LowerCaseThrows(settled.value.issues) THEN base
    ELSE blend(base, settled.value, cost)

-----------------------------------------------------------------------------
(* Inputs *)

W_an  == <<"a", "n">>
W_bad == <<"b", "a", "d">>
W_cat == <<"c", "a", "t">>
W_Cat == <<"C", "a", "t">>
W_dog == <<"d", "o", "g">>
Sp    == <<" ">>

\* prompts of the tracked events and of the assessed candidates
EventPrompts == {W_bad \o Sp \o W_bad, W_Cat \o Sp \o W_bad}
CandidatePrompts == {W_bad \o Sp \o W_bad, W_Cat \o Sp \o W_bad, W_an}
Types == {"image", "video"}

\* the model a tracked event names: the default model of its kind in grokApi.ts
Models(type) ==
    IF type = "image" THEN {"grok-imagine-image"} ELSE {"grok-imagine-video"}
Costs == {Q(22, 1000), Q(252, 1000)}

\* keys handed to setGrokTextModerationApiKey
Keys == {Null, <<" ">>, <<"k">>, <<" ", "k", " ">>}

Confidences == {Zero, Q(8, 10), Q(3, 2)}

\* the lists a well-formed verdict carries: none, or two issues that differ
\* in case only together with two suggestions
VerdictLists ==
    {[issues |-> <<>>, suggestions |-> <<>>],
     [issues |-> <<JStr(<<"B", "a", "d">>), JStr(W_bad)>>,
      suggestions |-> << <<"Describe the scene">>, <<"Drop the name">> >>]}

WellFormed ==
    {JsonObject("boolean", safe, "number", c, TRUE, l.issues, TRUE, l.suggestions) :
        safe \in BOOLEAN, c \in Confidences, l \in VerdictLists}

\* objects that fail the format check, and one that passes it with an issue
\* that is no string
IllFormed ==
    {JsonObject("string", TRUE, "number", Q(8, 10), TRUE, <<>>, TRUE, <<>>),
     JsonObject("boolean", FALSE, "string", Zero, TRUE, <<>>, TRUE, <<>>),
     JsonObject("boolean", FALSE, "number", Q(8, 10), FALSE, <<>>, TRUE, <<>>),
     JsonObject("boolean", FALSE, "number", Q(8, 10), TRUE, <<>>, FALSE, <<>>)}

NumberIssue == JsonObject("boolean", FALSE, "number", Q(8, 10),
                          TRUE, <<JNum(<<"4", "2">>)>>, TRUE, <<>>)

Responses ==
    {Response(k, EmptyObject) : k \in {"reject", "notjson", "null"}}
    \cup {Response("object", o) : o \in WellFormed \cup IllFormed \cup {NumberIssue}}

\* calculateSimilarity's arguments: up to MaxSimWords words, single spaces
\* between them, and three strings with other whitespace
MaxSimWords == 2
SimWords == {W_an, W_cat, W_Cat, W_dog, W_bad}

RECURSIVE JoinSpace(_)
JoinSpace(ws) ==
    IF ws = <<>> THEN <<>>
    ELSE IF Len(ws) = 1 THEN ws[1]
    ELSE ws[1] \o Sp \o JoinSpace(Tail(ws))

SimPrompts ==
    {JoinSpace(ws) : ws \in UNION {[1..k -> SimWords] : k \in 0..MaxSimWords}}
    \cup {Sp \o W_cat,
          W_cat \o <<" ", "\t">> \o <<"D", "O", "G">>,
          W_dog \o <<"\n">> \o W_an \o Sp}

-----------------------------------------------------------------------------
(* The state machine *)

\* the slots for concurrent calls of assessModerationRiskWithGrok
Slots == {1, 2}

NoInvocation == [pc |-> "idle"]

\* the variables of the other specifications, by specification
concVars == <<invocations>>
storeVars == <<tracked>>
loginVars == <<cookie, grokApiKey, route>>
pageVars == <<page, runs, resolver, loading, warningAssessment, preflights>>
genVars == <<genHistory, nextId, now>>
appVars == <<concVars, storeVars, loginVars, pageVars, genVars>>

\* what the actions of each of them leave alone
notConc == <<storeVars, loginVars, pageVars, genVars>>
notStore == <<concVars, loginVars, pageVars, genVars>>
notLogin == <<concVars, storeVars, pageVars, genVars>>
notPage == <<concVars, storeVars, loginVars, genVars>>
notGen == <<concVars, storeVars, loginVars, pageVars>>

\* a call of generateImages / generateVideo that has not been made.  The
\* fields after pc record what the call has done: assessed (the assessment
\* has resolved), decision (what its warning promise resolved to: "none",
\* "true" or "false"), generated (imageEdit / imageToVideo was called) and
\* setLoading (the call set loading to true).
NoRun ==
    [pc |-> "idle", assessed |-> FALSE, riskScore |-> Zero, confidence |-> Zero,
     decision |-> "none", generated |-> FALSE, setLoading |-> FALSE]

AppInit ==
    /\ invocations = [i \in Slots |-> NoInvocation]
    /\ tracked = <<>>
    /\ cookie = <<>>
    /\ grokApiKey = Null
    /\ route = "login"
    /\ runs = [i \in Slots |-> NoRun]
    /\ resolver = 0
    /\ loading = FALSE
    /\ warningAssessment = 0
    /\ preflights = 0
    /\ genHistory = <<>>
    /\ nextId = 1
    /\ now = 1

Init ==
    /\ storage = <<>>
    /\ userApiKey = Null
    /\ pc = "idle"
    /\ call = None
    /\ response = None
    /\ baseAssessment = None
    /\ grokAnalysis = None
    /\ result = None
    /\ str1 = <<>>
    /\ str2 = <<>>
    /\ simResult = NoNumber
    /\ AppInit
    /\ page = "image"

simVars == <<str1, str2, simResult>>
callVars == <<pc, call, response, baseAssessment, grokAnalysis, result>>

\* trackModerationEvent
TrackModerationEvent(type, prompt, moderated, model) ==
    /\ pc = "idle"
    /\ LET events == getModerationHistory(storage)
       IN  storage' = Take(<<NewEvent(type, prompt, moderated, model)>> \o events, MAX_EVENTS)
    /\ UNCHANGED <<userApiKey, callVars, simVars, appVars>>

\* clearModerationHistory
ClearModerationHistory ==
    /\ pc = "idle"
    /\ storage' = <<>>
    /\ UNCHANGED <<userApiKey, callVars, simVars, appVars>>

\* setGrokTextModerationApiKey / syncApiKey
SetGrokTextModerationApiKey(key) ==
    /\ pc = "idle"
    /\ userApiKey' = setGrokTextModerationApiKey(key)
    /\ UNCHANGED <<storage, callVars, simVars, appVars>>

\* mutant: the assessment records the prompt it was asked about
AssessModerationRisk_tracks(prompt, type, cost) ==
    /\ pc = "idle"
    /\ call' = [fn |-> "assessModerationRisk", prompt |-> prompt, type |-> type,
                cost |-> cost]
    /\ result' = assessModerationRisk(getModerationHistory(storage), prompt, type, cost)
    /\ pc' = "returned"
    /\ storage' = Take(<<NewEvent(type, prompt, FALSE, "grok-imagine-image")>>
                           \o getModerationHistory(storage), MAX_EVENTS)
    /\ UNCHANGED <<userApiKey, response, baseAssessment, grokAnalysis, simVars, appVars>>

\* a call of assessModerationRisk: synchronous
AssessModerationRisk(prompt, type, cost) ==
    /\ pc = "idle"
    /\ call' = [fn |-> "assessModerationRisk", prompt |-> prompt, type |-> type,
                cost |-> cost]
    /\ result' = assessModerationRisk(getModerationHistory(storage), prompt, type, cost)
    /\ pc' = "returned"
    /\ UNCHANGED <<storage, userApiKey, response, baseAssessment, grokAnalysis, simVars, appVars>>

\* a call of assessModerationRiskWithGrok, up to its await: the base
\* assessment, then checkTextModeration up to its own await of generateText,
\* which a missing key never reaches
AssessModerationRiskWithGrokCall(prompt, type, cost) ==
    /\ pc = "idle"
    /\ call' = [fn |-> "assessModerationRiskWithGrok", prompt |-> prompt,
                type |-> type, cost |-> cost]
    /\ baseAssessment' =
           assessModerationRisk(getModerationHistory(storage), prompt, type, cost)
    /\ IF userApiKey = Null
       THEN /\ response' = NoResponse
            /\ grokAnalysis' = checkTextModeration(userApiKey, NoResponse)
            /\ pc' = "resolved"
       ELSE /\ pc' = "awaiting"
            /\ UNCHANGED <<response, grokAnalysis>>
    /\ UNCHANGED <<storage, userApiKey, result, simVars, appVars>>

\* generateText settles and checkTextModeration runs to its return
GenerateTextSettles(resp) ==
    /\ pc = "awaiting"
    /\ response' = resp
    /\ grokAnalysis' = checkTextModeration(userApiKey, resp)
    /\ pc' = "resolved"
    /\ UNCHANGED <<storage, userApiKey, call, baseAssessment, result, simVars, appVars>>

\* assessModerationRiskWithGrok resumes after its await and returns
AssessModerationRiskWithGrokReturn ==
    /\ pc = "resolved"
    /\ result' = assessModerationRiskWithGrok(baseAssessment, grokAnalysis, call.cost)
    /\ pc' = "returned"
    /\ UNCHANGED <<storage, userApiKey, call, response, baseAssessment, grokAnalysis,
                   simVars, appVars>>

\* the caller has taken the assessment
Done ==
    /\ pc = "returned"
    /\ pc' = "idle"
    /\ call' = None
    /\ response' = None
    /\ baseAssessment' = None
    /\ grokAnalysis' = None
    /\ result' = None
    /\ UNCHANGED <<storage, userApiKey, simVars, appVars>>

Next ==
    \/ \E t \in Types, p \in EventPrompts, m \in BOOLEAN :
           \E model \in Models(t) : TrackModerationEvent(t, p, m, model)
    \/ ClearModerationHistory
    \/ \E k \in Keys : SetGrokTextModerationApiKey(k)
    \/ \E p \in CandidatePrompts, t \in Types, c \in Costs : AssessModerationRisk(p, t, c)
    \/ \E p \in CandidatePrompts, t \in Types, c \in Costs :
           AssessModerationRiskWithGrokCall(p, t, c)
    \/ \E r \in Responses : GenerateTextSettles(r)
    \/ AssessModerationRiskWithGrokReturn
    \/ Done

Spec == Init /\ [][Next]_vars

\* calculateSimilarity applied to every pair of SimPrompts
SimInit ==
    /\ storage = <<>>
    /\ userApiKey = Null
    /\ pc = "idle"
    /\ call = None
    /\ response = None
    /\ baseAssessment = None
    /\ grokAnalysis = None
    /\ result = None
    /\ str1 \in SimPrompts
    /\ str2 \in SimPrompts
    /\ simResult = NoNumber
    /\ AppInit
    /\ page = "image"

CalculateSimilarity ==
    /\ simResult = NoNumber
    /\ simResult' = calculateSimilarity(str1, str2)
    /\ UNCHANGED <<storage, userApiKey, callVars, str1, str2, appVars>>

SimNext == CalculateSimilarity

SimSpec == SimInit /\ [][SimNext]_vars

-----------------------------------------------------------------------------
(* The assessment applied to stores of up to MaxHistory events.  The store  *)
(* keeps up to 500 events, the assessment's lists at most 5: MaxHistory is  *)
(* above 5 so that the lists are cut.                                       *)

MaxHistory == 6

W_tag == <<"t", "a", "g">>
W_got == <<"g", "o", "t">>

\* the stored events: two moderated image prompts and a successful one
HistoryEvents ==
    {NewEvent("image", W_cat \o Sp \o W_dog \o Sp \o W_bad, TRUE, "grok-imagine-image"),
     NewEvent("image", W_Cat \o Sp \o W_dog, TRUE, "grok-imagine-image"),
     NewEvent("image", W_cat, FALSE, "grok-imagine-image")}

\* the sequences of up to k stored events
RECURSIVE HistoriesUpTo(_)
HistoriesUpTo(k) ==
    IF k = 0 THEN {<<>>}
    ELSE LET shorter == HistoriesUpTo(k - 1)
         IN  shorter \cup {<<e>> \o h : e \in HistoryEvents,
                                        h \in {x \in shorter : Len(x) = k - 1}}

Histories == HistoriesUpTo(MaxHistory)

\* the assessed prompts: one that repeats each of its words, and one that
\* shares a single word with the stored prompts
HistoryCandidates ==
    {W_bad \o Sp \o W_cat \o Sp \o W_dog \o Sp \o W_bad \o Sp \o W_cat \o Sp \o W_dog,
     W_cat \o Sp \o W_tag \o Sp \o W_got}

HistoryCosts == {Q(22, 1000)}

HistoryInit ==
    /\ storage \in Histories
    /\ userApiKey = Null
    /\ pc = "idle"
    /\ call = None
    /\ response = None
    /\ baseAssessment = None
    /\ grokAnalysis = None
    /\ result = None
    /\ str1 = <<>>
    /\ str2 = <<>>
    /\ simResult = NoNumber
    /\ AppInit
    /\ page = "image"

HistoryNext ==
    \/ \E p \in HistoryCandidates, t \in Types, c \in HistoryCosts :
           AssessModerationRisk(p, t, c)
    \/ Done

HistorySpec == HistoryInit /\ [][HistoryNext]_vars

-----------------------------------------------------------------------------
(* Properties of calculateSimilarity, under SimSpec *)

\* the lower-cased tokens of s longer than two characters: the maximal runs
\* without whitespace
TokenSet(s) ==
    LET l == toLowerCase(s)
        IsToken(i, j) ==
            /\ i <= j
            /\ \A k \in i..j : ~IsWhitespace(l[k])
            /\ (i = 1 \/ IsWhitespace(l[i - 1]))
            /\ (j = Len(l) \/ IsWhitespace(l[j + 1]))
            /\ j - i + 1 > 2
    IN  {SubSeq(l, ij[1], ij[2]) :
            ij \in {p \in (1..Len(l)) \X (1..Len(l)) : IsToken(p[1], p[2])}}

Jaccard(A, B) ==
    IF A = {} \/ B = {} THEN Zero
    ELSE Q(Cardinality(A \cap B), Cardinality(A \cup B))

\* C1: calculateSimilarity(a, b) is |A \cap B| / |A \cup B| over the sets A, B of
\* lower-cased whitespace-separated tokens longer than 2, is 0 when A or B is
\* empty, and lies in [0,1].
C1_SimilarityIsJaccard ==
    simResult # NoNumber =>
        /\ simResult = Jaccard(TokenSet(str1), TokenSet(str2))
        /\ QLe(Zero, simResult)
        /\ QLe(simResult, One)

\* a pair that differs in case and overlaps in one of three tokens
C1_Witness ==
    /\ simResult = Q(1, 3)
    /\ str1 # toLowerCase(str1)

\* C2: calculateSimilarity(a, b) = calculateSimilarity(b, a).
C2_SimilaritySymmetric ==
    simResult # NoNumber => simResult = calculateSimilarity(str2, str1)

\* overlapping prompts with token sets of different sizes
C2_Witness ==
    /\ simResult # NoNumber
    /\ QLt(Zero, simResult)
    /\ Cardinality(TokenSet(str1)) < Cardinality(TokenSet(str2))

\* C3: calculateSimilarity(p, p) = 1 when p has a token longer than 2.
C3_SelfSimilarityIsOne ==
    (simResult # NoNumber /\ str1 = str2 /\ TokenSet(str1) # {}) => simResult = One

\* a prompt with two tokens, compared with itself
C3_Witness ==
    /\ simResult = One
    /\ str1 = str2
    /\ Cardinality(TokenSet(str1)) = 2

-----------------------------------------------------------------------------
(* Properties of the assessments, under Spec.  The store changes only while *)
(* pc = "idle", so at pc = "returned" it is the history the call read.      *)

History == getModerationHistory(storage)

ReturnedFrom(fn) == pc = "returned" /\ call.fn = fn

InUnitInterval(x) == QLe(Zero, x) /\ QLe(x, One)

\* C4: with an empty moderation history assessModerationRisk returns
\* riskScore = 0, confidence = 0 and riskyWords = [].
C4_NoHistoryNoRisk ==
    (ReturnedFrom("assessModerationRisk") /\ History = <<>>) =>
        /\ result.riskScore = Zero
        /\ result.confidence = Zero
        /\ result.riskyWords = <<>>

\* a prompt with tokens assessed against the empty store
C4_Witness ==
    /\ ReturnedFrom("assessModerationRisk")
    /\ History = <<>>
    /\ TokenSet(call.prompt) # {}

\* the events of the requested kind that reach the similarity threshold
Matching(history, prompt, type) ==
    {i \in DOMAIN history :
        /\ history[i].type = type
        /\ QLe(MinSimilarity, calculateSimilarity(prompt, history[i].prompt))}

\* the candidate has a token, and exactly one event of its kind reaches the
\* threshold: a moderated one with the candidate's own prompt
OnlyIdenticalModeratedMatch ==
    /\ ReturnedFrom("assessModerationRisk")
    /\ TokenSet(call.prompt) # {}
    /\ Cardinality(Matching(History, call.prompt, call.type)) = 1
    /\ \A i \in Matching(History, call.prompt, call.type) :
           History[i].moderated /\ History[i].prompt = call.prompt

\* C5 as stated: with one matching event, moderated and identical to the
\* candidate, riskScore = 1.0 and confidence = 0.1.
C5_IdenticalModerated_Original ==
    OnlyIdenticalModeratedMatch =>
        /\ result.riskScore = One
        /\ result.confidence = Q(1, 10)

\* C5 amended: riskScore = 1.0; confidence = 0.1 when no risky word is found
\* for the candidate and 0.5 (the risky-word floor) when one is.
C5_IdenticalModerated ==
    OnlyIdenticalModeratedMatch =>
        /\ result.riskScore = One
        /\ result.confidence = IF result.riskyWords = <<>> THEN Q(1, 10) ELSE Q(5, 10)

\* the single identical moderated match, no word of it risky
C5_Witness ==
    /\ OnlyIdenticalModeratedMatch
    /\ result.riskyWords = <<>>
    /\ result.confidence = Q(1, 10)

\* C6: riskScore and confidence of every assessment returned by
\* assessModerationRisk and assessModerationRiskWithGrok lie in [0,1].
C6_ScoresInUnitInterval ==
    pc = "returned" =>
        /\ InUnitInterval(result.riskScore)
        /\ InUnitInterval(result.confidence)

\* C7: when the classifier returns confidence 0, assessModerationRiskWithGrok
\* returns the base assessment: riskScore, confidence, riskyWords, suggestions,
\* estimatedWaste and the similar lists are those of assessModerationRisk.
C7_ZeroConfidenceIsBase ==
    (ReturnedFrom("assessModerationRiskWithGrok") /\ grokAnalysis.value.confidence = Zero) =>
        /\ result.riskScore = baseAssessment.riskScore
        /\ result.confidence = baseAssessment.confidence
        /\ result.riskyWords = baseAssessment.riskyWords
        /\ result.suggestions = baseAssessment.suggestions
        /\ result.estimatedWaste = baseAssessment.estimatedWaste
        /\ result.similarModerated = baseAssessment.similarModerated
        /\ result.similarSuccessful = baseAssessment.similarSuccessful

\* the blended scores the claim gives for a verdict and a base assessment
ExpectedBlend(safe, c, baseRisk, baseConf) ==
    IF safe
    THEN [riskScore |-> QMul(Q(1, 2), baseRisk),
          confidence |-> QMax(QMul(Q(4, 5), c), baseConf)]
    ELSE [riskScore |-> QAdd(QMul(Q(7, 10), c), QMul(Q(3, 10), baseRisk)),
          confidence |-> QMax(c, baseConf)]

BlendIsExpected ==
    LET expected == ExpectedBlend(grokAnalysis.value.safe, grokAnalysis.value.confidence,
                                  baseAssessment.riskScore, baseAssessment.confidence)
    IN  /\ result.riskScore = expected.riskScore
        /\ result.confidence = expected.confidence

ClassifierSucceeded ==
    /\ userApiKey # Null
    /\ response.kind = "object"
    /\ ValidFormat(response.object)

\* C9: grokAnalysis is present in the returned assessment only if the
\* classifier call succeeded with confidence > 0.
C9_GrokAnalysisOnlyIfConfident ==
    (ReturnedFrom("assessModerationRiskWithGrok") /\ "grokAnalysis" \in DOMAIN result) =>
        /\ ClassifierSucceeded
        /\ QLt(Zero, grokAnalysis.value.confidence)

\* the failures of a classifier call
ClassifierFailed ==
    \/ userApiKey = Null
    \/ response.kind \in {"reject", "notjson", "null"}
    \/ /\ response.kind = "object"
       /\ \/ response.object.safeType # "boolean"
          \/ response.object.confidenceType # "number"
          \/ ~response.object.issuesIsArray
          \/ ~response.object.suggestionsIsArray

\* C10: checkTextModeration never rejects, and on every failure resolves with
\* safe = true, confidence = 0, no issues, no suggestions and the failure's
\* message in reasoning.
C10_CheckNeverThrows ==
    pc \in {"resolved", "returned"} /\ call.fn = "assessModerationRiskWithGrok" =>
        /\ grokAnalysis.status = "resolved"
        /\ ClassifierFailed =>
              /\ grokAnalysis.value.safe = TRUE
              /\ grokAnalysis.value.confidence = Zero
              /\ grokAnalysis.value.issues = <<>>
              /\ grokAnalysis.value.suggestions = <<>>
              /\ Len(grokAnalysis.value.reasoning) = 2
              /\ grokAnalysis.value.reasoning[1] = "Error analyzing prompt: "
              /\ userApiKey = Null =>
                    grokAnalysis.value.reasoning[2] = "Grok API key is not set. Please log in."
              /\ (userApiKey # Null /\ response.kind = "object") =>
                    grokAnalysis.value.reasoning[2] = "Invalid response format from Grok"

\* a JSON answer whose suggestions are no array has been turned into the fallback
C10_Witness ==
    /\ pc = "resolved"
    /\ response.kind = "object"
    /\ ~response.object.suggestionsIsArray
    /\ grokAnalysis.value.confidence = Zero

-----------------------------------------------------------------------------
(* Error handling of assessModerationRiskWithGrok, under Spec *)

\* the processing of the verdict throws: the promise was rejected, or an
\* issue is no string and cannot be lower-cased
ProcessingThrows ==
    \/ grokAnalysis.status = "rejected"
    \/ \E i \in DOMAIN grokAnalysis.value.issues :
           grokAnalysis.value.issues[i].t # "string"

\* C11: assessModerationRiskWithGrok never rejects because of the classifier:
\* it always returns an assessment, and when the classifier call or the
\* processing of its verdict throws, that assessment is the base historical
\* assessment, unchanged.
C11_NeverRejects ==
    ReturnedFrom("assessModerationRiskWithGrok") =>
        /\ {"riskScore", "confidence", "riskyWords", "suggestions", "estimatedWaste",
            "similarModerated", "similarSuccessful"} \subseteq DOMAIN result
        /\ ProcessingThrows =>
              /\ result = baseAssessment
              /\ result = assessModerationRisk(History, call.prompt, call.type, call.cost)

\* a verdict with an issue that is no string, over a history that gives a
\* positive base risk: the base assessment came back
C11_Witness ==
    /\ ReturnedFrom("assessModerationRiskWithGrok")
    /\ ProcessingThrows
    /\ QLt(Zero, baseAssessment.riskScore)
    /\ result = baseAssessment

-----------------------------------------------------------------------------
(* Properties of findRiskyWords, under HistorySpec *)

\* the occurrences of the term w in the prompts of the events of a kind that
\* were moderated (or not): pairs of an event and a position in its tokens
TermOccurrences(history, type, moderated, w) ==
    UNION {LET tokens == tokenize(history[i].prompt)
           IN  {<<i, j>> : j \in {k \in DOMAIN tokens : tokens[k] = w}} :
              i \in {k \in DOMAIN history :
                        history[k].type = type /\ history[k].moderated = moderated}}

ModeratedCount(w) == Cardinality(TermOccurrences(History, call.type, TRUE, w))
SuccessfulCount(w) == Cardinality(TermOccurrences(History, call.type, FALSE, w))

\* moderatedCount / (moderatedCount + successfulCount) of a term that occurs
RiskRatio(w) == Q(ModeratedCount(w), ModeratedCount(w) + SuccessfulCount(w))

\* C12: every term returned by findRiskyWords has moderatedCount +
\* successfulCount >= 2, moderatedCount > successfulCount and moderatedCount /
\* (moderatedCount + successfulCount) > 0.6 over the kind-filtered history.
C12_RiskyWordsHaveEvidence ==
    ReturnedFrom("assessModerationRisk") =>
        \A w \in Range(result.riskyWords) :
            LET m == ModeratedCount(w)
                s == SuccessfulCount(w)
            IN  /\ m + s >= 2
                /\ m > s
                /\ 10 * m > 6 * (m + s)

\* a term was returned, while another term of the prompt with a ratio of
\* exactly 0.6 (3 moderated occurrences, 2 successful) was not
C12_Witness ==
    /\ ReturnedFrom("assessModerationRisk")
    /\ result.riskyWords # <<>>
    /\ \E w \in Range(tokenize(call.prompt)) :
           /\ ModeratedCount(w) = 3
           /\ SuccessfulCount(w) = 2
           /\ w \notin Range(result.riskyWords)

\* C13: findRiskyWords returns at most 5 terms, ordered by non-increasing
\* risk ratio, and returns the empty list when the kind-filtered history
\* holds no moderated event.
C13_RiskyWordsTopFive ==
    ReturnedFrom("assessModerationRisk") =>
        /\ Len(result.riskyWords) <= 5
        /\ LET ratio == [w \in Range(result.riskyWords) |-> RiskRatio(w)]
           IN  \A i, j \in DOMAIN result.riskyWords :
                   i < j => QLe(ratio[result.riskyWords[j]], ratio[result.riskyWords[i]])
        /\ (\A i \in DOMAIN History :
               History[i].type = call.type => ~History[i].moderated)
              => result.riskyWords = <<>>

\* six tokens of the prompt qualify, five were returned, and the first has a
\* higher ratio than the last
C13_Witness ==
    /\ ReturnedFrom("assessModerationRisk")
    /\ Len(result.riskyWords) = 5
    /\ QLt(RiskRatio(result.riskyWords[5]), RiskRatio(result.riskyWords[1]))
    /\ LET words == tokenize(call.prompt)
       IN  Cardinality({i \in DOMAIN words :
               /\ ModeratedCount(words[i]) + SuccessfulCount(words[i]) >= 2
               /\ ModeratedCount(words[i]) > SuccessfulCount(words[i])
               /\ 10 * ModeratedCount(words[i])
                      > 6 * (ModeratedCount(words[i]) + SuccessfulCount(words[i]))}) = 6

-----------------------------------------------------------------------------
(* Lists of the assessment *)

NoDuplicates(s) == \A i, j \in DOMAIN s : i # j => s[i] # s[j]

\* the historical assessment of the call: the result of assessModerationRisk,
\* or the baseAssessment of assessModerationRiskWithGrok
Historical == IF call.fn = "assessModerationRisk" THEN result ELSE baseAssessment

\* C14: the riskyWords list of every assessment holds no term twice, and the
\* risk boost of assessModerationRisk counts each risky term once:
\* riskScore = min(score of the similar prompts + 0.1 * distinct risky terms, 1).
C14_RiskyWordsDistinct ==
    pc = "returned" =>
        /\ NoDuplicates(result.riskyWords)
        /\ call.fn = "assessModerationRisk" =>
              result.riskScore =
                  QMin(QAdd(similarityScore(result.similarModerated,
                                            result.similarSuccessful).riskScore,
                            Q(Cardinality(Range(result.riskyWords)), 10)),
                       One)

\* the events of a kind and outcome, by their position in the history
Eligible(type, moderated) ==
    {i \in DOMAIN History : History[i].type = type /\ History[i].moderated = moderated}

\* a similar list is cut at 5, is ordered by non-increasing similarity, holds
\* events of the history with their similarity to the prompt, and leaves out
\* no event of its kind and outcome that is more similar than one it holds
TopFive(list, moderated) ==
    LET sim == [i \in Eligible(call.type, moderated) |->
                   calculateSimilarity(call.prompt, History[i].prompt)]
    IN  /\ Len(list) <= 5
        /\ \A i, j \in DOMAIN list : i < j => QLe(list[j].similarity, list[i].similarity)
        /\ \A k \in DOMAIN list :
               /\ \E i \in Eligible(call.type, moderated) :
                      History[i] = list[k].event /\ sim[i] = list[k].similarity
               /\ Cardinality({i \in Eligible(call.type, moderated) :
                                  QLt(list[k].similarity, sim[i])})
                      = Cardinality({j \in DOMAIN list :
                                        QLt(list[k].similarity, list[j].similarity)})

\* C15: similarModerated and similarSuccessful each have at most 5 entries in
\* order of non-increasing similarity, and no event of the history of the
\* list's kind and outcome that is left out is more similar to the prompt than
\* an event in the list.
C15_SimilarListsTopFive ==
    ReturnedFrom("assessModerationRisk") =>
        /\ TopFive(result.similarModerated, TRUE)
        /\ TopFive(result.similarSuccessful, FALSE)

\* more than five moderated events reach the threshold; the list holds five of
\* them, of two different similarities, and an event was left out
C15_Witness ==
    /\ ReturnedFrom("assessModerationRisk")
    /\ Len(result.similarModerated) = 5
    /\ QLt(result.similarModerated[5].similarity, result.similarModerated[1].similarity)
    /\ Cardinality({i \in Eligible(call.type, TRUE) :
           QLe(MinSimilarity, calculateSimilarity(call.prompt, History[i].prompt))}) > 5

\* the events of one kind in a history
SameKind(history, type) == SelectSeq(history, LAMBDA e : e.type = type)

\* C16: every entry of similarModerated is a moderated event and every entry
\* of similarSuccessful a non-moderated one, each of the requested kind and
\* with similarity >= 0.2 to the prompt; and the assessment of
\* assessModerationRisk is the one the events of the requested kind alone
\* give, whatever events of the other kind the history holds.
C16_OtherKindIgnored ==
    ReturnedFrom("assessModerationRisk") =>
        /\ \A k \in DOMAIN result.similarModerated :
               LET sp == result.similarModerated[k]
               IN  /\ sp.event.moderated
                   /\ sp.event.type = call.type
                   /\ QLe(Q(2, 10), sp.similarity)
                   /\ sp.similarity = calculateSimilarity(call.prompt, sp.event.prompt)
        /\ \A k \in DOMAIN result.similarSuccessful :
               LET sp == result.similarSuccessful[k]
               IN  /\ ~sp.event.moderated
                   /\ sp.event.type = call.type
                   /\ QLe(Q(2, 10), sp.similarity)
                   /\ sp.similarity = calculateSimilarity(call.prompt, sp.event.prompt)
        /\ result = assessModerationRisk(SameKind(History, call.type), call.prompt,
                                         call.type, call.cost)

\* the store holds a similar moderated event of the requested kind and a
\* similar event of the other kind, and one event was listed
C16_Witness ==
    /\ ReturnedFrom("assessModerationRisk")
    /\ Len(result.similarModerated) = 1
    /\ \E i \in DOMAIN History :
           /\ History[i].type # call.type
           /\ QLe(MinSimilarity, calculateSimilarity(call.prompt, History[i].prompt))

-----------------------------------------------------------------------------
(* Estimated waste *)

ScoreGrid == {Q(k, 10) : k \in 0..10}

\* C17: assessModerationRisk returns estimatedWaste = riskScore * (cost + 0.05);
\* for a cost >= 0 it is not negative, it is 0 when riskScore is 0, and it does
\* not decrease when riskScore grows.
C17_HistoricalWaste ==
    ReturnedFrom("assessModerationRisk") =>
        /\ result.estimatedWaste = QMul(result.riskScore, QAdd(call.cost, Q(5, 100)))
        /\ QLe(Zero, result.estimatedWaste)
        /\ result.riskScore = Zero => result.estimatedWaste = Zero
        /\ \A c \in {Zero, call.cost}, r \in ScoreGrid :
               LET here == historicalWaste(result.riskScore, c)
                   there == historicalWaste(r, c)
               IN  /\ QLe(Zero, there)
                   /\ r = Zero => there = Zero
                   /\ QLe(r, result.riskScore) => QLe(there, here)
                   /\ QLe(result.riskScore, r) => QLe(here, there)

\* a risk strictly between 0 and 1, whose waste includes the surcharge
C17_Witness ==
    /\ ReturnedFrom("assessModerationRisk")
    /\ QLt(Zero, result.riskScore)
    /\ QLt(result.riskScore, One)
    /\ QLt(QMul(result.riskScore, call.cost), result.estimatedWaste)

WasteWithoutSurcharge == result.estimatedWaste = QMul(result.riskScore, call.cost)

\* the result is the blended one: it carries the classifier's verdict
Blended == ReturnedFrom("assessModerationRiskWithGrok") /\ "grokAnalysis" \in DOMAIN result

\* C18: whenever assessModerationRiskWithGrok returns a blended result, which
\* it does whenever neither the classifier call nor the processing of its
\* verdict threw, its estimatedWaste is the blended riskScore times cost,
\* without the moderation surcharge.
C18_BlendedWaste ==
    /\ Blended => WasteWithoutSurcharge
    /\ (ReturnedFrom("assessModerationRiskWithGrok") /\ ~ProcessingThrows) => Blended

\* a confident verdict blended into a positive risk: the waste differs from
\* the base assessment's
C18_Witness ==
    /\ Blended
    /\ QLt(Zero, grokAnalysis.value.confidence)
    /\ QLt(Zero, result.riskScore)
    /\ result.estimatedWaste # baseAssessment.estimatedWaste
    /\ result.estimatedWaste # historicalWaste(result.riskScore, call.cost)

-----------------------------------------------------------------------------
(* Suggestions and merged lists, under Spec *)

\* the string text holds the string w from some position on
Contains(text, w) ==
    \E k \in 1..(Len(text) - Len(w) + 1) : SubSeq(text, k, k + Len(w) - 1) = w

\* the suggestions generateSuggestions gives for the risky terms and the
\* similar successful prompts of the historical assessment a
SuggestionsInOrder(a) ==
    LET s == a.suggestions
        n1 == IF a.riskyWords # <<>> THEN 1 ELSE 0
        n2 == IF a.similarSuccessful # <<>> THEN 1 ELSE 0
    IN  /\ Len(s) <= 4
        /\ Len(s) = n1 + n2 + 2
        /\ n1 = 1 =>
              /\ s[1][1] = "Consider removing or replacing: "
              /\ \A w \in Range(a.riskyWords) : Contains(s[1], w)
              /\ LET first == a.riskyWords[1]
                     last == a.riskyWords[Len(a.riskyWords)]
                 IN  /\ SubSeq(s[1], 2, 1 + Len(first)) = first
                     /\ SubSeq(s[1], Len(s[1]) - Len(last) + 1, Len(s[1])) = last
        /\ n2 = 1 =>
              /\ s[n1 + 1] = <<"Try phrasing similar to: \"">>
                                 \o a.similarSuccessful[1].event.prompt \o <<"\"">>
              /\ \A i \in Eligible(call.type, FALSE) :
                     QLe(calculateSimilarity(call.prompt, History[i].prompt),
                         a.similarSuccessful[1].similarity)
        /\ s[n1 + n2 + 1] = <<"Use more generic, descriptive terms">>
        /\ s[n1 + n2 + 2] = <<"Avoid specific descriptions of people or sensitive topics">>

\* C19: generateSuggestions returns at most 4 suggestions in a fixed order:
\* one naming all risky terms iff there are any, then one quoting the most
\* similar successful prompt iff there is one, then the two generic ones.
C19_SuggestionsInOrder ==
    pc = "returned" => SuggestionsInOrder(Historical)

\* all four suggestions: the risky terms named, then the similar successful
\* prompt quoted, then the two generic ones
C19_Witness ==
    /\ ReturnedFrom("assessModerationRisk")
    /\ Len(result.suggestions) = 4
    /\ Len(result.similarSuccessful) = 1
    /\ result.riskyWords # <<>>
    /\ Contains(result.suggestions[2], result.similarSuccessful[1].event.prompt)

\* the position of the first occurrence of x in s
FirstIndex(s, x) == CHOOSE i \in DOMAIN s : s[i] = x /\ \A j \in 1..(i - 1) : s[j] # x

\* C20: in a blended result the suggestions are the base suggestions followed
\* by the classifier's, cut at 5 (every base suggestion is kept), and the
\* riskyWords are the base terms followed by the lower-cased classifier
\* issues, each term once, at its first position.
C20_MergedLists ==
    Blended =>
        LET allSuggestions == baseAssessment.suggestions \o grokAnalysis.value.suggestions
            allWords == baseAssessment.riskyWords
                            \o [i \in DOMAIN grokAnalysis.value.issues |->
                                   toLowerCase(grokAnalysis.value.issues[i].s)]
        IN  /\ Len(result.suggestions) = IF Len(allSuggestions) < 5 THEN Len(allSuggestions)
                                         ELSE 5
            /\ \A i \in DOMAIN result.suggestions : result.suggestions[i] = allSuggestions[i]
            /\ Len(baseAssessment.suggestions) <= Len(result.suggestions)
            /\ NoDuplicates(result.riskyWords)
            /\ Range(result.riskyWords) = Range(allWords)
            /\ \A i, j \in DOMAIN result.riskyWords :
                   i < j => FirstIndex(allWords, result.riskyWords[i])
                                < FirstIndex(allWords, result.riskyWords[j])

\* four base suggestions and two of the classifier cut to five, and a base
\* term that the classifier names again in another case kept once
C20_Witness ==
    /\ Blended
    /\ Len(baseAssessment.suggestions) = 4
    /\ Len(grokAnalysis.value.suggestions) = 2
    /\ Len(result.suggestions) = 5
    /\ baseAssessment.riskyWords # <<>>
    /\ \E i \in DOMAIN grokAnalysis.value.issues :
           /\ grokAnalysis.value.issues[i].s # toLowerCase(grokAnalysis.value.issues[i].s)
           /\ toLowerCase(grokAnalysis.value.issues[i].s) \in Range(baseAssessment.riskyWords)
    /\ Len(result.riskyWords) = 1

-----------------------------------------------------------------------------
(* Frame of the assessments, under Spec *)

\* C21: no step of assessModerationRisk or assessModerationRiskWithGrok (a
\* step that starts, resumes or ends a call) changes the stored moderation
\* history, whether the classifier succeeds or fails.
C21_AssessmentsNeverWrite ==
    [][(pc # "idle" \/ pc' # "idle") => storage' = storage]_vars

\* a call whose classifier failed has returned over a store that still holds
\* the two events it had
C21_Witness ==
    /\ ReturnedFrom("assessModerationRiskWithGrok")
    /\ Len(storage) = 2
    /\ ClassifierFailed
    /\ result.riskScore = baseAssessment.riskScore

-----------------------------------------------------------------------------
(* Two calls of assessModerationRiskWithGrok in flight at once, with events *)
(* tracked while they wait for the classifier.  A call reads the store once, *)
(* synchronously, before its await; the slot keeps that store in `started'.  *)

ConcEvents ==
    {NewEvent("image", W_bad \o Sp \o W_bad, TRUE, "grok-imagine-image"),
     NewEvent("image", W_Cat \o Sp \o W_bad, FALSE, "grok-imagine-image")}

\* the two calls are for different prompts
ConcPrompt(i) == IF i = 1 THEN W_bad \o Sp \o W_bad ELSE W_Cat \o Sp \o W_bad
ConcCost == Q(22, 1000)

UnsafeVerdict ==
    JsonObject("boolean", FALSE, "number", Q(8, 10), TRUE,
               <<JStr(<<"B", "a", "d">>), JStr(W_bad)>>, TRUE,
               << <<"Describe the scene">>, <<"Drop the name">> >>)

ConcResponses ==
    {Response("reject", EmptyObject), Response("object", UnsafeVerdict),
     Response("object", NumberIssue)}

ConcInit ==
    /\ storage = <<>>
    /\ userApiKey = <<"k">>
    /\ pc = "idle"
    /\ call = None
    /\ response = None
    /\ baseAssessment = None
    /\ grokAnalysis = None
    /\ result = None
    /\ str1 = <<>>
    /\ str2 = <<>>
    /\ simResult = NoNumber
    /\ AppInit
    /\ page = "image"

\* call i of assessModerationRiskWithGrok, up to its await
ConcCall(i) ==
    /\ invocations[i].pc = "idle"
    /\ invocations' = [invocations EXCEPT ![i] =
           [pc |-> "awaiting",
            started |-> storage,
            key |-> userApiKey,
            baseAssessment |->
                assessModerationRisk(getModerationHistory(storage), ConcPrompt(i),
                                     "image", ConcCost)]]
    /\ UNCHANGED <<storage, userApiKey, callVars, simVars, notConc>>

\* generateText of call i settles and checkTextModeration runs to its return
ConcSettles(i, resp) ==
    /\ invocations[i].pc = "awaiting"
    /\ invocations' = [invocations EXCEPT ![i] =
           [pc |-> "resolved",
            started |-> invocations[i].started,
            key |-> invocations[i].key,
            baseAssessment |-> invocations[i].baseAssessment,
            response |-> resp,
            grokAnalysis |-> checkTextModeration(invocations[i].key, resp)]]
    /\ UNCHANGED <<storage, userApiKey, callVars, simVars, notConc>>

\* mutant: the call assesses the prompt again after its await
ConcReturn_readsAgain(i) ==
    /\ invocations[i].pc = "resolved"
    /\ invocations' = [invocations EXCEPT ![i] =
           [pc |-> "returned",
            started |-> invocations[i].started,
            key |-> invocations[i].key,
            response |-> invocations[i].response,
            result |-> assessModerationRiskWithGrok(
                           assessModerationRisk(getModerationHistory(storage),
                                                ConcPrompt(i), "image", ConcCost),
                           invocations[i].grokAnalysis, ConcCost)]]
    /\ UNCHANGED <<storage, userApiKey, callVars, simVars, notConc>>

\* call i resumes after its await and returns
ConcReturn(i) ==
    /\ invocations[i].pc = "resolved"
    /\ invocations' = [invocations EXCEPT ![i] =
           [pc |-> "returned",
            started |-> invocations[i].started,
            key |-> invocations[i].key,
            response |-> invocations[i].response,
            result |-> assessModerationRiskWithGrok(invocations[i].baseAssessment,
                                                    invocations[i].grokAnalysis,
                                                    ConcCost)]]
    /\ UNCHANGED <<storage, userApiKey, callVars, simVars, notConc>>

\* the caller of call i has taken the assessment
ConcDone(i) ==
    /\ invocations[i].pc = "returned"
    /\ invocations' = [invocations EXCEPT ![i] = NoInvocation]
    /\ UNCHANGED <<storage, userApiKey, callVars, simVars, notConc>>

ConcNext ==
    \/ \E e \in ConcEvents : TrackModerationEvent(e.type, e.prompt, e.moderated, e.model)
    \/ \E i \in Slots : ConcCall(i)
    \/ \E i \in Slots, r \in ConcResponses : ConcSettles(i, r)
    \/ \E i \in Slots : ConcReturn(i)
    \/ \E i \in Slots : ConcDone(i)

ConcSpec == ConcInit /\ [][ConcNext]_vars

\* what call i returns when it runs alone against the store it started on,
\* with the response its own classifier call got
Alone(i) ==
    assessModerationRiskWithGrok(
        assessModerationRisk(getModerationHistory(invocations[i].started),
                             ConcPrompt(i), "image", ConcCost),
        checkTextModeration(invocations[i].key, invocations[i].response),
        ConcCost)

\* C22: under every interleaving of two pending calls of
\* assessModerationRiskWithGrok and of the events tracked meanwhile, each call
\* returns what it would return alone against the store as it was when the
\* call started, with its own classifier verdict.
C22_CallsDoNotInteract ==
    \A i \in Slots :
        invocations[i].pc = "returned" => invocations[i].result = Alone(i)

\* both calls have returned, they started on different stores and got
\* different responses, and the store has changed since both started
C22_Witness ==
    /\ \A i \in Slots : invocations[i].pc = "returned"
    /\ invocations[1].started # invocations[2].started
    /\ invocations[1].response # invocations[2].response
    /\ \A i \in Slots :
           /\ invocations[i].started # storage
           /\ assessModerationRisk(getModerationHistory(storage), ConcPrompt(i),
                                   "image", ConcCost).riskScore
                  # assessModerationRisk(getModerationHistory(invocations[i].started),
                                         ConcPrompt(i), "image", ConcCost).riskScore

-----------------------------------------------------------------------------
(* The store under trackModerationEvent and clearModerationHistory, for     *)
(* events of every kind and model.  `tracked' logs the events handed to     *)
(* trackModerationEvent since the last clear, newest first.                 *)

StoreModels == {"grok-imagine-image", "grok-imagine-image-pro", "grok-imagine-video"}
StorePrompt == W_cat

\* the log is kept one event longer than the store
MaxTracked == MAX_EVENTS + 1

StoreInit ==
    /\ storage = <<>>
    /\ userApiKey = Null
    /\ pc = "idle"
    /\ call = None
    /\ response = None
    /\ baseAssessment = None
    /\ grokAnalysis = None
    /\ result = None
    /\ str1 = <<>>
    /\ str2 = <<>>
    /\ simResult = NoNumber
    /\ AppInit
    /\ page = "image"

\* mutant: a full store keeps its events and drops the new one
StoreTrack_keepsOldest(type, prompt, moderated, model) ==
    /\ Len(tracked) < MaxTracked
    /\ LET events == getModerationHistory(storage)
       IN  storage' = Take(events \o <<NewEvent(type, prompt, moderated, model)>>, MAX_EVENTS)
    /\ tracked' = <<NewEvent(type, prompt, moderated, model)>> \o tracked
    /\ UNCHANGED <<userApiKey, callVars, simVars, notStore>>

\* trackModerationEvent, logged
StoreTrack(type, prompt, moderated, model) ==
    /\ Len(tracked) < MaxTracked
    /\ LET events == getModerationHistory(storage)
       IN  storage' = Take(<<NewEvent(type, prompt, moderated, model)>> \o events, MAX_EVENTS)
    /\ tracked' = <<NewEvent(type, prompt, moderated, model)>> \o tracked
    /\ UNCHANGED <<userApiKey, callVars, simVars, notStore>>

\* clearModerationHistory, logged
StoreClear ==
    /\ storage' = <<>>
    /\ tracked' = <<>>
    /\ UNCHANGED <<userApiKey, callVars, simVars, notStore>>

StoreNext ==
    \/ \E t \in Types, m \in BOOLEAN, model \in StoreModels :
           StoreTrack(t, StorePrompt, m, model)
    \/ StoreClear

StoreSpec == StoreInit /\ [][StoreNext]_vars

GenerationCost(type, model) ==
    IF type = "video" THEN Q(152, 1000)
    ELSE IF model = "grok-imagine-image-pro" THEN Q(70, 1000)
    ELSE Q(22, 1000)

\* C25: every stored event with moderated = true has a positive cost, the
\* generation cost of its kind and model plus the 0.05 surcharge; every
\* stored event with moderated = false has exactly the generation cost; and a
\* moderated event costs 0.05 more than a non-moderated one of the same kind
\* and model.
C25_EventCosts ==
    /\ \A i \in DOMAIN storage :
           LET e == storage[i]
           IN  IF e.moderated
               THEN /\ QLt(Zero, e.cost)
                    /\ e.cost = QAdd(GenerationCost(e.type, e.model), Q(5, 100))
               ELSE e.cost = GenerationCost(e.type, e.model)
    /\ \A i, j \in DOMAIN storage :
           (/\ storage[i].type = storage[j].type
            /\ storage[i].model = storage[j].model
            /\ storage[i].moderated
            /\ ~storage[j].moderated)
               => storage[i].cost = QAdd(storage[j].cost, Q(5, 100))

\* the store holds a moderated and a non-moderated event of the pro image
\* model, at 0.12 and 0.07
C25_Witness ==
    /\ Len(storage) = 2
    /\ storage[1].model = "grok-imagine-image-pro" /\ storage[1].type = "image"
    /\ storage[2].model = "grok-imagine-image-pro" /\ storage[2].type = "image"
    /\ storage[1].moderated /\ ~storage[2].moderated
    /\ storage[1].cost = Q(12, 100)
    /\ storage[2].cost = Q(7, 100)

-----------------------------------------------------------------------------
(* The base score of assessModerationRisk, under HistorySpec *)

\* the similarities of a list of similar prompts, added up
RECURSIVE Weight(_)
Weight(list) ==
    IF list = <<>> THEN Zero ELSE QAdd(Head(list).similarity, Weight(Tail(list)))

\* the score from the returned lists of similar prompts
ScoreFromSimilar(res) ==
    LET total == QAdd(Weight(res.similarModerated), Weight(res.similarSuccessful))
        count == Len(res.similarModerated) + Len(res.similarSuccessful)
    IN  IF count >= 1 /\ QLt(Zero, total)
        THEN [riskScore |-> QDiv(Weight(res.similarModerated), total),
              confidence |-> QMin(Q(count, 10), One)]
        ELSE [riskScore |-> Zero, confidence |-> Zero]

\* C24: assessModerationRisk's riskScore is the similarity of similarModerated
\* over the similarity of similarModerated and similarSuccessful, and its
\* confidence min(number of similar events / 10, 1), both 0 without a similar
\* event; with risky words the riskScore is raised by 0.1 per risky word, to
\* at most 1, and the confidence to at least 0.5.
C24_BaseScore ==
    ReturnedFrom("assessModerationRisk") =>
        LET s == ScoreFromSimilar(result)
            k == Len(result.riskyWords)
        IN  IF k > 0
            THEN /\ result.riskScore = QMin(QAdd(s.riskScore, Q(k, 10)), One)
                 /\ result.confidence = QMax(s.confidence, Q(5, 10))
            ELSE /\ result.riskScore = s.riskScore
                 /\ result.confidence = s.confidence

\* six similar events of both outcomes with different similarities, and
\* risky words, each named once: the confidence 0.6 comes from the count, the
\* riskScore from the weights and the boost, below the cap
C24_Witness ==
    /\ ReturnedFrom("assessModerationRisk")
    /\ Len(result.similarModerated) + Len(result.similarSuccessful) = 6
    /\ result.similarSuccessful # <<>>
    /\ result.similarModerated[1].similarity # result.similarSuccessful[1].similarity
    /\ result.riskyWords # <<>>
    /\ NoDuplicates(result.riskyWords)
    /\ result.confidence = Q(6, 10)
    /\ QLt(result.riskScore, One)

-----------------------------------------------------------------------------
(* Login, the protected layout and logout (Login.tsx, App.tsx, cookies.ts), *)
(* with the assessments made from the protected pages.  userApiKey is the    *)
(* key of grokTextModeration.ts, grokApiKey the one of grokApi.ts.           *)

\* encodeURIComponent on the characters of LoginKeys: a space is escaped
encodeURIComponent(s) == [i \in DOMAIN s |-> IF s[i] = " " THEN "%20" ELSE s[i]]
decodeURIComponent(s) == [i \in DOMAIN s |-> IF s[i] = "%20" THEN " " ELSE s[i]]

\* cookies.ts; the value of an absent cookie is empty
setApiKeyCookie(key) == encodeURIComponent(trim(key))
getApiKeyFromCookie(value) == IF value # <<>> THEN decodeURIComponent(value) ELSE Null

\* grokApi.ts: userApiKey = key?.trim() || null
setGrokApiKey(key) == IF key = Null THEN Null ELSE trim(key)

\* what the user types into the login form
LoginKeys ==
    {<<" ">>, <<"k">>, <<" ", "k", " ">>, <<"j">>, <<"k", " ", "j">>, <<"x">>}

LoginInit ==
    /\ storage = <<>>
    /\ userApiKey = Null
    /\ pc = "idle"
    /\ call = None
    /\ response = None
    /\ baseAssessment = None
    /\ grokAnalysis = None
    /\ result = None
    /\ str1 = <<>>
    /\ str2 = <<>>
    /\ simResult = NoNumber
    /\ AppInit
    /\ page = "image"

\* Login.handleSubmit with a key that is not blank
HandleSubmit(key) ==
    /\ route = "login"
    /\ trim(key) # <<>>
    /\ cookie' = setApiKeyCookie(trim(key))
    /\ grokApiKey' = setGrokApiKey(trim(key))
    /\ route' = "app"
    /\ UNCHANGED <<storage, userApiKey, callVars, simVars, notLogin>>

\* a protected page is opened: ProtectedLayout's effect
ProtectedLayoutMount ==
    /\ pc = "idle"
    /\ LET key == getApiKeyFromCookie(cookie)
       IN  IF key = Null
           THEN /\ route' = "login"
                /\ UNCHANGED grokApiKey
           ELSE /\ route' = "app"
                /\ grokApiKey' = setGrokApiKey(key)
    /\ UNCHANGED <<cookie, storage, userApiKey, callVars, simVars, notLogin>>

\* the page is loaded anew: the modules' variables start over
Reload ==
    /\ pc = "idle"
    /\ grokApiKey' = Null
    /\ userApiKey' = Null
    /\ UNCHANGED <<cookie, route, storage, callVars, simVars, notLogin>>

\* ProtectedLayout.handleLogout
HandleLogout ==
    /\ route = "app"
    /\ getApiKeyFromCookie(cookie) # Null
    /\ cookie' = <<>>
    /\ grokApiKey' = setGrokApiKey(Null)
    /\ route' = "login"
    /\ UNCHANGED <<storage, userApiKey, callVars, simVars, notLogin>>

\* generateImages / generateVideo on a protected page ask for the assessment
LoggedInAssessment(prompt, type, cost) ==
    /\ route = "app"
    /\ grokApiKey # Null
    /\ AssessModerationRiskWithGrokCall(prompt, type, cost)

\* nothing in the application calls setGrokTextModerationApiKey or syncApiKey:
\* userApiKey stays null and no classifier request is ever pending
LoginNext ==
    \/ \E k \in LoginKeys : HandleSubmit(k)
    \/ ProtectedLayoutMount
    \/ Reload
    \/ HandleLogout
    \/ \E p \in CandidatePrompts, t \in Types, c \in Costs : LoggedInAssessment(p, t, c)
    \/ AssessModerationRiskWithGrokReturn
    \/ Done

LoginSpec == LoginInit /\ [][LoginNext]_vars

\* C26: whenever the generation key of grokApi is set, the key used by
\* checkTextModeration is set to the same value, and a classifier call made
\* while logged in does not fail with "Grok API key is not set".
C26_KeysMatch ==
    /\ grokApiKey # Null => userApiKey = grokApiKey
    /\ (route = "app" /\ grokApiKey # Null /\ pc = "resolved") =>
           grokAnalysis.value.reasoning
               # <<"Error analyzing prompt: ", "Grok API key is not set. Please log in.">>

-----------------------------------------------------------------------------
(* The pages' submit with generateImages / generateVideo of App.tsx, the     *)
(* warning modal and, on the video page, the preflight check.  An image and  *)
(* a prompt are present, so the Generate button is disabled by loading       *)
(* alone; up to two calls are in flight.                                     *)

Pages == {"image", "video"}

\* the riskScore and confidence of the assessments that resolve: below and at
\* the two thresholds, and above them
PageAssessments ==
    {[riskScore |-> Q(24, 100), confidence |-> One],
     [riskScore |-> Q(25, 100), confidence |-> Q(3, 10)],
     [riskScore |-> One, confidence |-> Q(29, 100)],
     [riskScore |-> Q(86, 100), confidence |-> Q(1, 2)]}

PageInit ==
    /\ storage = <<>>
    /\ userApiKey = Null
    /\ pc = "idle"
    /\ call = None
    /\ response = None
    /\ baseAssessment = None
    /\ grokAnalysis = None
    /\ result = None
    /\ str1 = <<>>
    /\ str2 = <<>>
    /\ simResult = NoNumber
    /\ AppInit
    /\ page \in Pages

pageFrame == <<storage, userApiKey, callVars, simVars, notPage, page>>

\* mutant: the warning is shown for a high risk only
NeedsWarning_highOnly(a) ==
    QLe(Q(50, 100), a.riskScore) /\ QLe(Q(3, 10), a.confidence)

\* assessment.riskScore >= 0.25 && assessment.confidence >= 0.3; the pages
\* always pass onWarning
NeedsWarning(a) ==
    QLe(Q(25, 100), a.riskScore) /\ QLe(Q(3, 10), a.confidence)

\* the rest of generateImages / generateVideo once the warning is out of the
\* way: loading is set and the generation API is called
Generating(r) ==
    [r EXCEPT !.pc = "generating", !.generated = TRUE, !.setLoading = TRUE]

\* the warning promise of call r resolves to ok and the call resumes
Decided(r, ok) ==
    IF ok THEN Generating([r EXCEPT !.decision = "true"])
    ELSE [r EXCEPT !.pc = "finished", !.decision = "false"]

\* window.__moderationWarningResolve(ok) and its delete, when it is set
Resolve(ok) ==
    IF resolver # 0
    THEN /\ runs' = [runs EXCEPT ![resolver] = Decided(runs[resolver], ok)]
         /\ loading' = (loading \/ ok)
         /\ resolver' = 0
    ELSE UNCHANGED <<runs, loading, resolver>>

\* a click on Generate: submit calls generateImages / generateVideo, which
\* runs up to its await of assessModerationRiskWithGrok
Submit(i) ==
    /\ ~loading
    /\ runs[i].pc = "idle"
    /\ runs' = [runs EXCEPT ![i] = [NoRun EXCEPT !.pc = "assessing"]]
    /\ UNCHANGED <<resolver, loading, warningAssessment, preflights, pageFrame>>

\* the assessment of call i resolves to a: the call goes on to the warning
\* callback, which shows the modal and stores the resolve function of its
\* promise, or straight to the generation
AssessmentResolves(i, a) ==
    /\ runs[i].pc = "assessing"
    /\ LET r == [runs[i] EXCEPT !.assessed = TRUE, !.riskScore = a.riskScore,
                                !.confidence = a.confidence]
       IN  IF NeedsWarning(a)
           THEN /\ runs' = [runs EXCEPT ![i] = [r EXCEPT !.pc = "warning"]]
                /\ warningAssessment' = i
                /\ resolver' = i
                /\ UNCHANGED loading
           ELSE /\ runs' = [runs EXCEPT ![i] = Generating(r)]
                /\ loading' = TRUE
                /\ UNCHANGED <<warningAssessment, resolver>>
    /\ UNCHANGED <<preflights, pageFrame>>

\* handleWarningCancel
HandleWarningCancel ==
    /\ warningAssessment # 0
    /\ warningAssessment' = 0
    /\ Resolve(FALSE)
    /\ UNCHANGED <<preflights, pageFrame>>

\* handleWarningProceed
HandleWarningProceed ==
    /\ warningAssessment # 0
    /\ warningAssessment' = 0
    /\ Resolve(TRUE)
    /\ UNCHANGED <<preflights, pageFrame>>

\* handlePreflight up to its await of runPreflightCheck: the modal closes
HandlePreflight ==
    /\ page = "video"
    /\ warningAssessment # 0
    /\ warningAssessment' = 0
    /\ preflights' = preflights + 1
    /\ UNCHANGED <<runs, resolver, loading, pageFrame>>

\* runPreflightCheck settles: passed and confirmed resolves true; passed and
\* declined, failed, or thrown resolves false
PreflightSettles(outcome) ==
    /\ preflights > 0
    /\ preflights' = preflights - 1
    /\ Resolve(outcome = "confirmed")
    /\ UNCHANGED <<warningAssessment, pageFrame>>

PreflightOutcomes == {"confirmed", "declined", "failed", "thrown"}

\* imageEdit / imageToVideo of call i settles: loading is reset on success
\* and in the catch
GenerationSettles(i) ==
    /\ runs[i].pc = "generating"
    /\ runs' = [runs EXCEPT ![i] = [@ EXCEPT !.pc = "finished"]]
    /\ loading' = FALSE
    /\ UNCHANGED <<resolver, warningAssessment, preflights, pageFrame>>

\* submit has returned from call i
SubmitReturns(i) ==
    /\ runs[i].pc = "finished"
    /\ runs' = [runs EXCEPT ![i] = NoRun]
    /\ UNCHANGED <<resolver, loading, warningAssessment, preflights, pageFrame>>

PageNext ==
    \/ \E i \in Slots : Submit(i)
    \/ \E i \in Slots, a \in PageAssessments : AssessmentResolves(i, a)
    \/ HandleWarningCancel
    \/ HandleWarningProceed
    \/ HandlePreflight
    \/ \E o \in PreflightOutcomes : PreflightSettles(o)
    \/ \E i \in Slots : GenerationSettles(i)
    \/ \E i \in Slots : SubmitReturns(i)

PageSpec == PageInit /\ [][PageNext]_vars

\* C27: the generation API is called only after the assessment has resolved
\* and, when the assessment has riskScore >= 0.25 and confidence >= 0.3, only
\* after the warning callback resolved true; a call whose callback resolved
\* false (Cancel, or a preflight that failed, threw or was declined) has made
\* no generation call and has not set loading to true.
C27_GenerationAfterConsent ==
    \A i \in Slots :
        /\ runs[i].generated =>
               /\ runs[i].assessed
               /\ (QLe(Q(1, 4), runs[i].riskScore) /\ QLe(Q(3, 10), runs[i].confidence))
                      => runs[i].decision = "true"
        /\ runs[i].setLoading => runs[i].generated
        /\ runs[i].decision = "false" =>
               /\ ~runs[i].generated
               /\ ~runs[i].setLoading
               /\ runs[i].pc = "finished"

\* on the video page one call generates after its warning resolved true at
\* the two thresholds, and the other has ended on a false while loading is
\* true for the first
C27_Witness ==
    /\ page = "video"
    /\ runs[1].pc = "generating" /\ runs[1].decision = "true"
    /\ runs[1].riskScore = Q(25, 100) /\ runs[1].confidence = Q(3, 10)
    /\ runs[2].pc = "finished" /\ runs[2].decision = "false"
    /\ loading

\* C28: no call of generateImages / generateVideo is left waiting on its
\* warning promise after a later submit has overwritten
\* window.__moderationWarningResolve: every call that waits on its warning
\* promise is the one whose resolve function the window holds, so that a
\* decision can still resolve it.
C28_NoWarningLeftWaiting ==
    \A i \in Slots : runs[i].pc = "warning" => resolver = i

-----------------------------------------------------------------------------
(* The unsafe verdict and the historical score, under Spec *)

\* assessModerationRiskWithGrok has returned and the classifier's verdict was
\* unsafe with a confidence in (0, 1]
UnsafeVerdictReturned ==
    /\ ReturnedFrom("assessModerationRiskWithGrok")
    /\ ~grokAnalysis.value.safe
    /\ QLt(Zero, grokAnalysis.value.confidence)
    /\ QLe(grokAnalysis.value.confidence, One)

-----------------------------------------------------------------------------
(* The generation history of history.ts.  An item is what the operations    *)
(* read of it: whether it carries id and timestamp (keyed), and their       *)
(* values.  The limits are scaled down: 100 items to MAX_HISTORY_ITEMS, the  *)
(* 50 the fallback keeps to FallbackKeep.                                    *)

MAX_HISTORY_ITEMS == 3
FallbackKeep == 1

\* calls of addToHistory, and the values Date.now() takes
MaxAdds == 4

\* {...item, id, timestamp}, and the item as the caller passed it
Keyed(id, timestamp) == [keyed |-> TRUE, id |-> id, timestamp |-> timestamp]
Raw == [keyed |-> FALSE, id |-> 0, timestamp |-> 0]

RECURSIVE InsertNewest(_, _)
InsertNewest(sorted, x) ==
    IF sorted = <<>> THEN <<x>>
    ELSE IF Head(sorted).timestamp < x.timestamp
         THEN <<x>> \o sorted
         ELSE <<Head(sorted)>> \o InsertNewest(Tail(sorted), x)

\* items.sort((a, b) => b.timestamp - a.timestamp), stable
RECURSIVE SortNewestFirst(_)
SortNewestFirst(items) ==
    IF items = <<>> THEN <<>>
    ELSE InsertNewest(SortNewestFirst(SubSeq(items, 1, Len(items) - 1)),
                      items[Len(items)])

Orders(items) ==
    LET n == Len(items)
    IN  {[i \in 1..n |-> items[f[i]]] :
            f \in {g \in [1..n -> 1..n] : \A i, j \in 1..n : i # j => g[i] # g[j]}}

\* the comparator gives NaN for an item without a timestamp, which sort takes
\* for 0: with such an item among items of different timestamps the
\* comparator is inconsistent and the order is the implementation's choice
ConsistentComparator(items) ==
    \/ \A i \in DOMAIN items : items[i].keyed
    \/ \A i, j \in DOMAIN items :
           (items[i].keyed /\ items[j].keyed) => items[i].timestamp = items[j].timestamp

\* the arrays getHistory may return for the stored array
getHistory(stored) ==
    IF ConsistentComparator(stored)
    THEN {IF \A i \in DOMAIN stored : stored[i].keyed
          THEN SortNewestFirst(stored) ELSE stored}
    ELSE Orders(stored)

GenHistoryInit ==
    /\ storage = <<>>
    /\ userApiKey = Null
    /\ pc = "idle"
    /\ call = None
    /\ response = None
    /\ baseAssessment = None
    /\ grokAnalysis = None
    /\ result = None
    /\ str1 = <<>>
    /\ str2 = <<>>
    /\ simResult = NoNumber
    /\ AppInit
    /\ page = "image"

genFrame == <<storage, userApiKey, callVars, simVars, notGen>>

\* addToHistory at the time t; firstFails, secondFails: localStorage.setItem
\* throws (the quota) in the try, in the catch
AddToHistory(t, firstFails, secondFails) ==
    /\ nextId <= MaxAdds
    /\ nextId' = nextId + 1
    /\ now' = t
    /\ IF ~firstFails
       THEN \E history \in getHistory(genHistory) :
                genHistory' = Take(<<Keyed(nextId, t)>> \o history, MAX_HISTORY_ITEMS)
       ELSE IF ~secondFails
            THEN \E history \in getHistory(genHistory) :
                     genHistory' = <<Raw>> \o Take(history, FallbackKeep)
            ELSE UNCHANGED genHistory
    /\ UNCHANGED genFrame

\* deleteHistoryItems; deleteHistoryItem is the call with one id
DeleteHistoryItems(ids) ==
    /\ \E history \in getHistory(genHistory) :
           genHistory' = SelectSeq(history, LAMBDA item : item.id \notin ids)
    /\ UNCHANGED <<nextId, now, genFrame>>

\* clearHistory
ClearHistory ==
    /\ genHistory' = <<>>
    /\ UNCHANGED <<nextId, now, genFrame>>

GenHistoryNext ==
    \/ \E t \in now..MaxAdds, f1, f2 \in BOOLEAN : AddToHistory(t, f1, f2)
    \/ \E ids \in SUBSET (1..MaxAdds) : ids # {} /\ DeleteHistoryItems(ids)
    \/ ClearHistory

GenHistorySpec == GenHistoryInit /\ [][GenHistoryNext]_vars

\* C30: after any sequence of addToHistory, deleteHistoryItem,
\* deleteHistoryItems and clearHistory calls, those of addToHistory whose
\* first write fails and whose fallback write is used included, the stored
\* generation history holds at most MAX_HISTORY_ITEMS items (100 in the code)
\* and every stored item carries an id and a timestamp.
C30_HistoryWellFormed ==
    /\ Len(genHistory) <= MAX_HISTORY_ITEMS
    /\ \A i \in DOMAIN genHistory : genHistory[i].keyed

=============================================================================
